---- MODULE Spec2Model ----
(***************************************************************************)
(* Power_XML: the XML comparison worker (src/src/workers/xmlDiffWorker.ts), *)
(* the comparison view that listens to it (src/src/App.tsx) and the XML    *)
(* editor (src/unnamed/part_000).                                          *)
(*                                                                         *)
(* JavaScript strings are sequences of characters; a character is a        *)
(* one-character TLA+ string, except the two non-ASCII code points         *)
(* "U+00E9" (e with acute, precomposed) and "U+0301" (combining acute).    *)
(* A Record<string,string> is the sequence of its [key, value] entries in  *)
(* insertion order (the order Object.keys returns for non-integer keys).   *)
(* An XML text is represented by what xml2js makes of it: a parse error    *)
(* with the parser's message, or the parsed element structure.             *)
(***************************************************************************)
EXTENDS Integers, Sequences, FiniteSets, TLC

VARIABLES
  pc,          \* position of the worker inside self.onmessage
  phase,       \* side being flattened: "left" or "right"
  req,         \* event.data: [leftXml, rightXml]
  outbox,      \* messages passed to self.postMessage by the running handler
  stack,       \* mapXmlToFlat: the work list
  item,        \* mapXmlToFlat: the popped work item being iterated
  idx,         \* mapXmlToFlat: position of the for loop in item.elements
  siblingCounts,
  collector,
  processedElements,
  lastEmit,
  left,        \* result of mapXmlToFlat(leftXml, ...)
  right,       \* result of mapXmlToFlat(rightXml, ...)
  diffIn,      \* arguments of a direct diffMaps(left, right) call
  diffOut,     \* its return value
  \* App (src/src/App.tsx)
  isComparing,
  leftError,
  rightError,
  progress,
  appDifferences,  \* the state `differences`
  appStats,        \* the state `stats`
  filter,
  changeFilter,
  leftXml,         \* the text of the left input
  rightXml,        \* the text of the right input
  listeners,       \* the event types the worker has a listener of the App for
  posted,          \* the request posted to the worker and not yet answered
  \* XmlEditor (src/unnamed/part_000)
  xmlContent,
  tree,
  editorError,     \* the state `error`
  historyRef,
  historyIndexRef,
  canUndo,
  canRedo,
  thrown           \* the error of a handler of the editor that threw, if any

workerVars == <<pc, phase, req, outbox, stack, item, idx, siblingCounts,
                collector, processedElements, lastEmit, left, right>>
diffVars == <<diffIn, diffOut>>
appVars == <<isComparing, leftError, rightError, progress, appDifferences,
             appStats, filter, changeFilter, leftXml, rightXml, listeners, posted>>
editorVars == <<xmlContent, tree, editorError, historyRef,
                historyIndexRef, canUndo, canRedo, thrown>>
vars == <<pc, phase, req, outbox, stack, item, idx, siblingCounts,
          collector, processedElements, lastEmit, left, right, diffIn, diffOut,
          isComparing, leftError, rightError, progress, appDifferences,
          appStats, filter, changeFilter, leftXml, rightXml, listeners, posted,
          xmlContent, tree, editorError, historyRef,
          historyIndexRef, canUndo, canRedo, thrown>>

----------------------------------------------------------------------------
(* Bounds of the model *)

\* longest child list of the generated documents' root element
MaxKids == 3
\* most entries of a mapping handed directly to diffMaps
MaxKeys == 2
\* width of the two levels of the large document
ScanDocWidth == 16

----------------------------------------------------------------------------
(* Strings *)

Undefined == "undefined"

Digits == <<"0", "1", "2", "3", "4", "5", "6", "7", "8", "9">>

\* the decimal text of a number, as a template literal prints it
RECURSIVE NumberToString(_)
NumberToString(n) ==
  IF n < 10 THEN <<Digits[n + 1]>>
  ELSE NumberToString(n \div 10) \o <<Digits[(n % 10) + 1]>>

WhiteSpace == {" ", "\n", "\t"}

RECURSIVE TrimStart(_)
TrimStart(s) ==
  IF s # <<>> /\ Head(s) \in WhiteSpace THEN TrimStart(Tail(s)) ELSE s

RECURSIVE TrimEnd(_)
TrimEnd(s) ==
  IF s # <<>> /\ s[Len(s)] \in WhiteSpace
  THEN TrimEnd(SubSeq(s, 1, Len(s) - 1)) ELSE s

\* String.prototype.trim
Trim(s) == TrimEnd(TrimStart(s))

\* Array.prototype.join on an array of strings
RECURSIVE Join(_, _)
Join(parts, sep) ==
  IF parts = <<>> THEN <<>>
  ELSE IF Len(parts) = 1 THEN parts[1]
  ELSE parts[1] \o sep \o Join(Tail(parts), sep)

----------------------------------------------------------------------------
(* Parsed documents (xml-js, compact: false) *)

TextNode(t) == [type |-> "text", text |-> t]
CDataNode(t) == [type |-> "cdata", text |-> t]
CommentNode(t) == [type |-> "comment", comment |-> t]
\* attributes: the entries of el.attributes in order (<<>>: no attributes);
\* elements: el.elements (<<>>: none)
ElementNode(n, attrs, kids) ==
  [type |-> "element", name |-> n, attributes |-> attrs, elements |-> kids]

Parsed(roots) == [ok |-> TRUE, elements |-> roots]
\* xml2js of a text without any node returns an object without `elements`
ParsedEmpty == [ok |-> TRUE]
\* xml2js throws an Error carrying the parser's message
ParseFailure(msg) == [ok |-> FALSE, message |-> msg]

----------------------------------------------------------------------------
(* Record<string, string> *)

EmptyMap == <<>>

Keys(m) == [i \in 1..Len(m) |-> m[i].key]
KeySet(m) == {m[i].key : i \in 1..Len(m)}
HasKey(m, k) == \E i \in 1..Len(m) : m[i].key = k
Get(m, k) == m[CHOOSE i \in 1..Len(m) : m[i].key = k].value

\* m[k] = v: an existing key keeps its position, a new key goes last
SetKey(m, k, v) ==
  IF HasKey(m, k)
  THEN [i \in 1..Len(m) |-> IF m[i].key = k THEN [key |-> k, value |-> v] ELSE m[i]]
  ELSE Append(m, [key |-> k, value |-> v])

----------------------------------------------------------------------------
(* mapXmlToFlat: helpers *)

\* number of processed elements between two 'Scanning elements' updates
ScanEmitEvery == 250

\* (node as { text?: string }).text ?? ''
NodeText(node) == IF "text" \in DOMAIN node THEN node.text ELSE <<>>

\* out += text for every text or cdata node, in order
RECURSIVE ConcatText(_)
ConcatText(textNodes) ==
  IF textNodes = <<>> THEN <<>>
  ELSE NodeText(Head(textNodes)) \o ConcatText(Tail(textNodes))

IsTextOrCData(node) == node.type = "text" \/ node.type = "cdata"

\* (mutant) return out, without trim()
extractText_NoTrim(nodes) == ConcatText(SelectSeq(nodes, IsTextOrCData))

extractText(nodes) == Trim(ConcatText(SelectSeq(nodes, IsTextOrCData)))

\* el.name ?? 'unnamed'
ElementName(el) ==
  IF "name" \in DOMAIN el THEN el.name
  ELSE <<"u", "n", "n", "a", "m", "e", "d">>

\* (mutant) the segment without the sibling index
PathSegment_NoIndex(name, currentIndex) == name

\* `${name}[${currentIndex}]`
PathSegment(name, currentIndex) ==
  name \o <<"[">> \o NumberToString(currentIndex) \o <<"]">>

AttrKey(pathString, attrName) == pathString \o <<"/", "@">> \o attrName
TextKey(pathString) == pathString \o <<"/", "#", "t", "e", "x", "t">>

\* (mutant) one counter for all the names of a sibling list
NextIndex_AnyName(counts, name) ==
  Cardinality(UNION {{<<n, k>> : k \in 1..counts[n]} : n \in DOMAIN counts}) + 1

\* (siblingCounts[name] ?? 0) + 1
NextIndex(counts, name) ==
  (IF name \in DOMAIN counts THEN counts[name] ELSE 0) + 1

\* siblingCounts[name] = currentIndex
SetCount(counts, name, k) ==
  [n \in DOMAIN counts \cup {name} |-> IF n = name THEN k ELSE counts[n]]

NoCounts == [n \in {} |-> 0]

\* for (const [attrName, attrValue] of Object.entries(el.attributes)) collector[...] = ...
RECURSIVE CollectAttributes(_, _, _)
CollectAttributes(coll, pathString, attrs) ==
  IF attrs = <<>> THEN coll
  ELSE CollectAttributes(
         SetKey(coll, AttrKey(pathString, Head(attrs).key), Head(attrs).value),
         pathString, Tail(attrs))

\* (mutant) the text entry is written without the test of textContent
CollectText_Always(coll, pathString, el) ==
  SetKey(coll, TextKey(pathString), extractText(el.elements))

\* if (textContent) collector[`${pathString}/#text`] = textContent
CollectText(coll, pathString, el) ==
  LET textContent == extractText(el.elements)
  IN IF textContent # <<>> THEN SetKey(coll, TextKey(pathString), textContent) ELSE coll

\* el.elements?.filter((n) => n.type === 'element')
ElementChildren(el) == SelectSeq(el.elements, LAMBDA n : n.type = "element")

\* (mutant) the children are never pushed
PushChildren_Never(stk, el, currentPath) == stk

\* the stack after the element's children were pushed (only if there are any)
PushChildren(stk, el, currentPath) ==
  IF Len(ElementChildren(el)) > 0
  THEN Append(stk, [elements |-> ElementChildren(el), path |-> currentPath])
  ELSE stk

Min(a, b) == IF a < b THEN a ELSE b
Max(a, b) == IF a > b THEN a ELSE b

\* Math.round(basePercent + (processed / (processed + pending + 1)) * spanPercent),
\* clamped to 0..99; Math.round rounds halves up
ScanPercent(base, span, processed, pending) ==
  LET den == processed + pending + 1
      rounded == (2 * (base * den + processed * span) + den) \div (2 * den)
  IN Min(99, Max(0, rounded))

\* (mutant) both mapXmlToFlat calls are given basePercent 0
BasePercent_Zero(ph) == 0

BasePercent(ph) == IF ph = "left" THEN 0 ELSE 45
SpanPercent == 45

Progress(ph, percent, message) ==
  [ok |-> TRUE, type |-> "progress", phase |-> ph, percent |-> percent,
   message |-> message]

----------------------------------------------------------------------------
(* String.prototype.localeCompare                                          *)
(*                                                                         *)
(* ECMA-262 requires localeCompare to define a total ordering of all       *)
(* strings and to return 0 for strings that are canonically equivalent in  *)
(* Unicode. It is modelled as the comparison of collation keys: the        *)
(* canonical decomposition of the string, compared first by the primary    *)
(* weights of its base characters (root collation: punctuation, then       *)
(* digits, then letters), then by its accents. The alphabet has no pair of *)
(* characters that differ by case only.                                    *)
(***************************************************************************)

CombiningAcute == "U+0301"
EAcute == "U+00E9"

\* canonical decomposition (NFD)
RECURSIVE Decompose(_)
Decompose(s) ==
  IF s = <<>> THEN <<>>
  ELSE (IF Head(s) = EAcute THEN <<"e", CombiningAcute>> ELSE <<Head(s)>>)
       \o Decompose(Tail(s))

CollationOrder ==
  <<"_", "-", ":", ".", "[", "]", "@", "/", "#",
    "0", "1", "2", "3", "4", "5", "6", "7", "8", "9",
    "a", "b", "c", "d", "e", "f", "g", "h", "i", "j", "k", "l", "m",
    "n", "o", "p", "q", "r", "s", "t", "u", "v", "w", "x", "y", "z">>

PrimaryWeight(ch) == CHOOSE i \in 1..Len(CollationOrder) : CollationOrder[i] = ch

\* primary weights of the base characters of a decomposed string
RECURSIVE PrimaryKey(_)
PrimaryKey(d) ==
  IF d = <<>> THEN <<>>
  ELSE IF Head(d) = CombiningAcute THEN PrimaryKey(Tail(d))
  ELSE <<PrimaryWeight(Head(d))>> \o PrimaryKey(Tail(d))

\* secondary weights: 0 for a base character, 1 for the combining accent
RECURSIVE SecondaryKey(_)
SecondaryKey(d) ==
  IF d = <<>> THEN <<>>
  ELSE <<IF Head(d) = CombiningAcute THEN 1 ELSE 0>> \o SecondaryKey(Tail(d))

\* lexicographic comparison of two sequences of weights: -1, 0 or 1
RECURSIVE CompareWeights(_, _)
CompareWeights(a, b) ==
  IF a = <<>> /\ b = <<>> THEN 0
  ELSE IF a = <<>> THEN -1
  ELSE IF b = <<>> THEN 1
  ELSE IF Head(a) < Head(b) THEN -1
  ELSE IF Head(a) > Head(b) THEN 1
  ELSE CompareWeights(Tail(a), Tail(b))

localeCompare(a, b) ==
  LET da == Decompose(a)
      db == Decompose(b)
      primary == CompareWeights(PrimaryKey(da), PrimaryKey(db))
  IN IF primary # 0 THEN primary
     ELSE CompareWeights(SecondaryKey(da), SecondaryKey(db))

----------------------------------------------------------------------------
(* diffMaps *)

\* (mutant) an array of the keys of both mappings instead of a Set
UnionKeys_Array(l, r) == Keys(l) \o Keys(r)

\* new Set([...Object.keys(left), ...Object.keys(right)]) in iteration order
UnionKeys(l, r) ==
  Keys(l) \o SelectSeq(Keys(r), LAMBDA k : ~HasKey(l, k))

NoStats == [added |-> 0, removed |-> 0, changed |-> 0]

\* (mutant) a key absent from right is reported as added, one absent from
\* left as removed
ClassifyKey_Swapped(acc, l, r, key) ==
  IF ~HasKey(r, key)
  THEN [differences |-> Append(acc.differences,
                         [path |-> key, rightValue |-> Get(l, key), change |-> "added"]),
        stats |-> [acc.stats EXCEPT !.added = @ + 1]]
  ELSE IF ~HasKey(l, key)
  THEN [differences |-> Append(acc.differences,
                         [path |-> key, leftValue |-> Get(r, key), change |-> "removed"]),
        stats |-> [acc.stats EXCEPT !.removed = @ + 1]]
  ELSE IF Get(l, key) # Get(r, key)
  THEN [differences |-> Append(acc.differences,
                         [path |-> key, leftValue |-> Get(l, key),
                          rightValue |-> Get(r, key), change |-> "changed"]),
        stats |-> [acc.stats EXCEPT !.changed = @ + 1]]
  ELSE acc

\* (mutant) a key of both mappings is reported as changed without the
\* comparison of its values
ClassifyKey_NoValueTest(acc, l, r, key) ==
  IF ~HasKey(r, key)
  THEN [differences |-> Append(acc.differences,
                         [path |-> key, leftValue |-> Get(l, key), change |-> "removed"]),
        stats |-> [acc.stats EXCEPT !.removed = @ + 1]]
  ELSE IF ~HasKey(l, key)
  THEN [differences |-> Append(acc.differences,
                         [path |-> key, rightValue |-> Get(r, key), change |-> "added"]),
        stats |-> [acc.stats EXCEPT !.added = @ + 1]]
  ELSE [differences |-> Append(acc.differences,
                         [path |-> key, leftValue |-> Get(l, key),
                          rightValue |-> Get(r, key), change |-> "changed"]),
        stats |-> [acc.stats EXCEPT !.changed = @ + 1]]

\* the body of keys.forEach for one key: the accumulator after that key
ClassifyKey(acc, l, r, key) ==
  IF ~HasKey(r, key)
  THEN [differences |-> Append(acc.differences,
                         [path |-> key, leftValue |-> Get(l, key), change |-> "removed"]),
        stats |-> [acc.stats EXCEPT !.removed = @ + 1]]
  ELSE IF ~HasKey(l, key)
  THEN [differences |-> Append(acc.differences,
                         [path |-> key, rightValue |-> Get(r, key), change |-> "added"]),
        stats |-> [acc.stats EXCEPT !.added = @ + 1]]
  ELSE IF Get(l, key) # Get(r, key)
  THEN [differences |-> Append(acc.differences,
                         [path |-> key, leftValue |-> Get(l, key),
                          rightValue |-> Get(r, key), change |-> "changed"]),
        stats |-> [acc.stats EXCEPT !.changed = @ + 1]]
  ELSE acc

RECURSIVE ForEachKey(_, _, _, _)
ForEachKey(acc, l, r, keys) ==
  IF keys = <<>> THEN acc
  ELSE ForEachKey(ClassifyKey(acc, l, r, Head(keys)), l, r, Tail(keys))

\* (a, b) => a.path.localeCompare(b.path)
ComparePaths(a, b) == localeCompare(a.path, b.path)

\* one record put into an already sorted list, after the records that do not
\* come after it (Array.prototype.sort is stable)
RECURSIVE InsertSorted(_, _)
InsertSorted(sorted, d) ==
  IF sorted = <<>> THEN <<d>>
  ELSE IF ComparePaths(Head(sorted), d) > 0 THEN <<d>> \o sorted
  ELSE <<Head(sorted)>> \o InsertSorted(Tail(sorted), d)

\* differences.sort((a, b) => a.path.localeCompare(b.path))
RECURSIVE SortDifferences(_)
SortDifferences(ds) ==
  IF ds = <<>> THEN <<>>
  ELSE InsertSorted(SortDifferences(SubSeq(ds, 1, Len(ds) - 1)), ds[Len(ds)])

\* (mutant) every key held by both mappings is counted as changed
diffMaps_CountsEqualKeys(l, r) ==
  LET acc == ForEachKey([differences |-> <<>>, stats |-> NoStats], l, r, UnionKeys(l, r))
  IN [differences |-> SortDifferences(acc.differences),
      stats |-> [acc.stats EXCEPT !.changed =
                   Len(UnionKeys(l, r)) - acc.stats.added - acc.stats.removed]]

diffMaps(l, r) ==
  LET acc == ForEachKey([differences |-> <<>>, stats |-> NoStats], l, r, UnionKeys(l, r))
  IN [differences |-> SortDifferences(acc.differences), stats |-> acc.stats]

----------------------------------------------------------------------------
(* XmlEditor: from the parsed document to the editable tree and back *)

\* el.name || 'unnamed'
EditableName(el) ==
  IF "name" \in DOMAIN el /\ el.name # <<>> THEN el.name
  ELSE <<"u", "n", "n", "a", "m", "e", "d">>

\* (siblingCounts[name] || 0) + 1
NextCount(counts, name) ==
  (IF name \in DOMAIN counts THEN counts[name] ELSE 0) + 1

\* (mutant) the path without the sibling count
IndexedPath_NoCount(parent, name, count) ==
  (IF parent # <<>> THEN parent \o <<".">> ELSE <<>>) \o name

\* parent ? `${parent}.${name}[${count}]` : `${name}[${count}]`
IndexedPath(parent, name, count) ==
  (IF parent # <<>> THEN parent \o <<".">> ELSE <<>>)
    \o name \o <<"[">> \o NumberToString(count) \o <<"]">>

EditableNode(id, name, value, attributes, children) ==
  [id |-> id, path |-> id, name |-> name, value |-> value,
   attributes |-> attributes, isText |-> TRUE, children |-> children]

\* elements.forEach of buildEditableTree from the given siblingCounts on
RECURSIVE BuildSiblings(_, _, _)
BuildSiblings(elements, path, counts) ==
  IF elements = <<>> THEN <<>>
  ELSE LET el == Head(elements)
       IN IF el.type # "element" THEN BuildSiblings(Tail(elements), path, counts)
          ELSE LET name == EditableName(el)
                   count == NextCount(counts, name)
                   currentPath == IndexedPath(path, name, count)
               IN <<EditableNode(currentPath, name, extractText(el.elements),
                                 el.attributes,
                                 BuildSiblings(ElementChildren(el), currentPath, NoCounts))>>
                  \o BuildSiblings(Tail(elements), path, SetCount(counts, name, count))

buildEditableTree(elements, path) == BuildSiblings(elements, path, NoCounts)

\* if (node.value) element.elements.push({ type: 'text', text: node.value })
ValueNodes_Never(node) == <<>>

ValueNodes(node) == IF node.value # <<>> THEN <<TextNode(node.value)>> ELSE <<>>

\* buildXmlFromEditable(nodes): the attributes are set when there are any, the
\* text node of the value comes first, the children's elements follow
RECURSIVE buildXmlFromEditable(_)
buildXmlFromEditable(nodes) ==
  [i \in 1..Len(nodes) |->
     ElementNode(nodes[i].name, nodes[i].attributes,
                 ValueNodes(nodes[i]) \o buildXmlFromEditable(nodes[i].children))]

\* the document object handleDownload makes of the tree built from a parsed
\* document
Rebuilt(doc) ==
  [ok |-> TRUE,
   elements |-> buildXmlFromEditable(
                  buildEditableTree(IF "elements" \in DOMAIN doc THEN doc.elements ELSE <<>>,
                                    <<>>))]

----------------------------------------------------------------------------
(* Input documents *)

NameA == <<"a">>
NameB == <<"b">>
NameC == <<"c">>

Attr(n, v) == [key |-> n, value |-> v]

LeafB(t) == ElementNode(NameB, <<>>, <<TextNode(t)>>)
EmptyLeaf(n) == ElementNode(n, <<>>, <<>>)

\* the nodes the generated documents put under their root element
ChildChoices ==
  { TextNode(<<"1">>),
    CDataNode(<<" ">>),
    ElementNode(NameB, <<>>, <<TextNode(<<" ", "2">>)>>),
    ElementNode(NameB, <<Attr(<<"x">>, <<"1">>)>>, <<>>),
    ElementNode(NameC, <<Attr(<<"x">>, <<"2">>), Attr(<<"y">>, <<"1">>)>>,
                <<LeafB(<<"7">>), TextNode(<<"3">>), CommentNode(<<"4">>),
                  EmptyLeaf(NameB), LeafB(<<"8">>)>>) }

ChildLists == UNION {[1..n -> ChildChoices] : n \in 0..MaxKids}

GeneratedDocs == {Parsed(<<ElementNode(NameA, <<>>, kids)>>) : kids \in ChildLists}

\* the generated documents that have room for one more child of the root
SmallDocs == {d \in GeneratedDocs : Len(d.elements[1].elements) < MaxKids}

\* <a><b>1</b><b>2</b></a> and <a><b>1</b><b>3</b></a>
ScenarioLeft == Parsed(<<ElementNode(NameA, <<>>, <<LeafB(<<"1">>), LeafB(<<"2">>)>>)>>)
ScenarioRight == Parsed(<<ElementNode(NameA, <<>>, <<LeafB(<<"1">>), LeafB(<<"3">>)>>)>>)

\* <!--0--><a><b>1</b><b>2</b></a><!--0-->
CommentedDoc ==
  Parsed(<<CommentNode(<<"0">>),
           ElementNode(NameA, <<>>, <<LeafB(<<"1">>), LeafB(<<"2">>)>>),
           CommentNode(<<"0">>)>>)

\* two sibling elements whose names are the two canonically equivalent
\* spellings of e-acute, and an element whose name contains a dot
AccentDoc ==
  Parsed(<<ElementNode(NameA, <<>>,
             <<ElementNode(<<"e", CombiningAcute>>, <<>>, <<TextNode(<<"1">>)>>),
               ElementNode(<<EAcute>>, <<>>, <<TextNode(<<"2">>)>>),
               ElementNode(<<"a", ".", "b">>, <<Attr(<<"x">>, <<"1">>)>>, <<>>)>>)>>)

\* a document with more than ScanEmitEvery elements: a root with ScanDocWidth
\* children, each with ScanDocWidth empty children but the last, which has a text
WideDoc ==
  Parsed(<<ElementNode(NameA, <<>>,
             [i \in 1..ScanDocWidth |->
                ElementNode(NameB, <<>>,
                  [j \in 1..ScanDocWidth |->
                     IF j = ScanDocWidth THEN ElementNode(NameC, <<>>, <<TextNode(<<"1">>)>>)
                     ELSE EmptyLeaf(NameC)])])>>)

\* the child lists of a chain of elements: every level has ScanDocWidth empty
\* elements but the first, which holds the next level
RECURSIVE ChainLevels(_)
ChainLevels(levels) ==
  [i \in 1..ScanDocWidth |->
     IF i = 1 /\ levels > 1 THEN ElementNode(NameC, <<>>, ChainLevels(levels - 1))
     ELSE EmptyLeaf(NameC)]

\* a document whose second half is bushier than its first half: the root has
\* a subtree of three full levels and, flattened before it, a chain of levels
UnevenDoc ==
  Parsed(<<CommentNode(<<"0">>),
           ElementNode(NameA, <<>>,
             <<ElementNode(NameB, <<>>,
                 [i \in 1..ScanDocWidth |->
                    ElementNode(NameB, <<>>,
                      [j \in 1..ScanDocWidth |->
                         ElementNode(NameC, <<>>, <<EmptyLeaf(NameC)>>)])]),
               ElementNode(NameB, <<>>, ChainLevels(ScanDocWidth))>>)>>)

ParserMessages == {"Unclosed root tag", "Invalid character in tag name"}
Failures == {ParseFailure(m) : m \in ParserMessages}

Inputs == GeneratedDocs \cup Failures
            \cup {ParsedEmpty, ScenarioLeft, ScenarioRight, CommentedDoc, AccentDoc, WideDoc,
                  UnevenDoc}

\* the documents that are compared with what the editor rebuilds of them
RebuiltDocs == SmallDocs \cup {ParsedEmpty, CommentedDoc, AccentDoc}

CoreInputs == {ParseFailure("Unclosed root tag"), ParsedEmpty, ScenarioLeft, ScenarioRight}

InsertAt(seq, i, x) == SubSeq(seq, 1, i - 1) \o <<x>> \o SubSeq(seq, i, Len(seq))

\* positions of a child list at which an element named n can be inserted
\* without a following sibling of the same name
FreePositions(kids, n) ==
  {i \in 1..(Len(kids) + 1) :
     \A j \in i..Len(kids) : ~(kids[j].type = "element" /\ ElementName(kids[j]) = n)}

\* the elements obtained from el by inserting leaf into a child list of its
\* subtree, at any position (anywhere) or at the free positions only
RECURSIVE InsertInto(_, _, _)
InsertInto(el, leaf, anywhere) ==
  {[el EXCEPT !.elements = InsertAt(el.elements, i, leaf)] :
     i \in IF anywhere THEN 1..(Len(el.elements) + 1)
           ELSE FreePositions(el.elements, ElementName(leaf))}
  \cup UNION {{[el EXCEPT !.elements[j] = e2] : e2 \in InsertInto(el.elements[j], leaf, anywhere)} :
                j \in {k \in 1..Len(el.elements) : el.elements[k].type = "element"}}

\* the documents that differ from doc only by one more empty leaf element
WithEmptyLeaf(doc, anywhere) ==
  IF doc.ok /\ "elements" \in DOMAIN doc /\ Len(doc.elements) = 1
  THEN {Parsed(<<e2>>) : e2 \in UNION {InsertInto(doc.elements[1], EmptyLeaf(n), anywhere) :
                                         n \in {NameB, NameC}}}
  ELSE {}

Requests ==
  {[leftXml |-> p[1], rightXml |-> p[2]] :
     p \in (Inputs \X CoreInputs) \cup (CoreInputs \X Inputs)
           \cup {<<AccentDoc, AccentDoc>>}
           \cup UNION {{<<d, e>> : e \in WithEmptyLeaf(d, TRUE)} : d \in SmallDocs}
           \cup {<<d, Rebuilt(d)>> : d \in RebuiltDocs}}

NoRequest == [leftXml |-> ParsedEmpty, rightXml |-> ParsedEmpty]
NoItem == [elements |-> <<>>, path |-> <<>>]
NoResult == [map |-> EmptyMap, error |-> Undefined]

----------------------------------------------------------------------------
(* The worker: self.onmessage and the two mapXmlToFlat calls it makes *)

NoDiffCall == [left |-> EmptyMap, right |-> EmptyMap]
NotReturned == [returned |-> FALSE]

\* the value null of a string state
Null == "null"
\* the value null of the progress state
NoProgress == [null |-> TRUE]

\* an XML text that is empty after trim()
BlankContent == [ok |-> TRUE, blank |-> TRUE]

\* keys of the flat mappings of the texts of the comparison view
SampleKeys ==
  << AttrKey(<<"a", "[", "1", "]">>, <<"x">>),
     TextKey(<<"a", "[", "1", "]", ".", "b", "[", "2", "]">>),
     TextKey(<<"a", "[", "1", "]", ".", "c", "[", "1", "]">>) >>

\* An XML text of the comparison view is represented by what mapXmlToFlat
\* returns for it: the mapping, or the parser's message.
TextOf(m) == [map |-> m, error |-> Undefined]
BrokenText == [map |-> EmptyMap, error |-> "Unclosed root tag"]

\* the initial texts of the two inputs; the model gives them mappings over the
\* sample keys with one key only in the left text, one only in the right text
\* and one with two values (the texts of the source share four keys, three of
\* them with two values, and the right text has one key more)
sampleLeft ==
  TextOf(<<[key |-> SampleKeys[1], value |-> <<"1">>, in |-> TRUE],
           [key |-> SampleKeys[3], value |-> <<"1">>, in |-> TRUE]>>)
sampleRight ==
  TextOf(<<[key |-> SampleKeys[2], value |-> <<"d">>, in |-> TRUE],
           [key |-> SampleKeys[3], value |-> <<"2">>, in |-> TRUE]>>)

\* no request is with the worker
NoPost == [none |-> TRUE]

\* App: the useState initial values
AppInit ==
  /\ isComparing = FALSE
  /\ leftError = Undefined
  /\ rightError = Undefined
  /\ progress = NoProgress
  /\ appDifferences = <<>>
  /\ appStats = NoStats
  /\ filter = <<>>
  /\ changeFilter = [added |-> TRUE, removed |-> TRUE, changed |-> TRUE]
  /\ leftXml = sampleLeft
  /\ rightXml = sampleRight
  /\ listeners = {}
  /\ posted = NoPost

\* XmlEditor: the useState and useRef initial values
EditorInit ==
  /\ xmlContent = BlankContent
  /\ tree = <<>>
  /\ editorError = Null
  /\ historyRef = <<>>
  /\ historyIndexRef = -1
  /\ canUndo = FALSE
  /\ canRedo = FALSE
  /\ thrown = Null

Init ==
  /\ pc = "idle"
  /\ phase = "left"
  /\ req = NoRequest
  /\ outbox = <<>>
  /\ stack = <<>>
  /\ item = NoItem
  /\ idx = 0
  /\ siblingCounts = NoCounts
  /\ collector = EmptyMap
  /\ processedElements = 0
  /\ lastEmit = 0
  /\ left = NoResult
  /\ right = NoResult
  /\ diffIn = NoDiffCall
  /\ diffOut = NotReturned
  /\ AppInit
  /\ EditorInit

Xml(ph) == IF ph = "left" THEN req.leftXml ELSE req.rightXml

\* the locals of mapXmlToFlat are gone once it has returned
ResetLocals ==
  /\ stack' = <<>>
  /\ item' = NoItem
  /\ idx' = 0
  /\ siblingCounts' = NoCounts
  /\ collector' = EmptyMap
  /\ processedElements' = 0
  /\ lastEmit' = 0

\* (mutant) a failed left call ends the request without the right call
Return_StopOnError(res) ==
  IF phase = "left" /\ res.error = Undefined
  THEN /\ left' = res
       /\ right' = right
       /\ phase' = "right"
       /\ pc' = "begin"
  ELSE /\ (IF phase = "left" THEN left' = res /\ right' = right
                             ELSE right' = res /\ left' = left)
       /\ phase' = phase
       /\ pc' = "respond"

\* mapXmlToFlat returns res: the left call is followed by the right call,
\* the right call by the error test
Return(res) ==
  IF phase = "left"
  THEN /\ left' = res
       /\ right' = right
       /\ phase' = "right"
       /\ pc' = "begin"
  ELSE /\ right' = res
       /\ left' = left
       /\ phase' = phase
       /\ pc' = "respond"

\* the handler receives a request
OnMessage ==
  /\ pc = "idle"
  /\ \E r \in Requests : req' = r
  /\ pc' = "begin"
  /\ UNCHANGED <<phase, outbox, stack, item, idx, siblingCounts, collector,
                 processedElements, lastEmit, left, right, diffIn, diffOut,
                 appVars, editorVars>>

\* postProgress(basePercent, 'Parsing XML...'), xml2js succeeds, the work list
\* is set up
StartFlatten ==
  /\ pc = "begin"
  /\ Xml(phase).ok
  /\ outbox' = Append(outbox, Progress(phase, BasePercent(phase), "Parsing XML..."))
  /\ stack' = <<IF "elements" \in DOMAIN Xml(phase)
                THEN [elements |-> Xml(phase).elements, path |-> <<>>]
                ELSE [path |-> <<>>]>>
  /\ collector' = EmptyMap
  /\ processedElements' = 0
  /\ lastEmit' = 0
  /\ pc' = "loop"
  /\ UNCHANGED <<phase, req, item, idx, siblingCounts, left, right, diffIn, diffOut,
                 appVars, editorVars>>

\* postProgress(basePercent, 'Parsing XML...'), xml2js throws, the catch
\* clause returns the error
FlattenThrows ==
  /\ pc = "begin"
  /\ ~Xml(phase).ok
  /\ outbox' = Append(outbox, Progress(phase, BasePercent(phase), "Parsing XML..."))
  /\ Return([map |-> EmptyMap, error |-> Xml(phase).message])
  /\ ResetLocals
  /\ UNCHANGED <<req, diffIn, diffOut,
                 appVars, editorVars>>

\* const item = stack.pop()!; if (!elements) continue; the for loop begins
PopItem ==
  /\ pc = "loop"
  /\ stack # <<>>
  /\ LET top == stack[Len(stack)]
     IN /\ stack' = SubSeq(stack, 1, Len(stack) - 1)
        /\ IF "elements" \in DOMAIN top /\ Len(top.elements) > 0
           THEN /\ item' = top
                /\ idx' = 1
                /\ pc' = "for"
           ELSE /\ item' = NoItem
                /\ idx' = 0
                /\ pc' = "loop"
  /\ siblingCounts' = NoCounts
  /\ UNCHANGED <<phase, req, outbox, collector, processedElements, lastEmit,
                 left, right, diffIn, diffOut,
                 appVars, editorVars>>

\* the for loop moves to the next node, or ends after the last one
Advance ==
  IF idx < Len(item.elements)
  THEN /\ idx' = idx + 1
       /\ item' = item
       /\ pc' = "for"
  ELSE /\ idx' = 0
       /\ item' = NoItem
       /\ pc' = "loop"

\* if (el.type !== 'element') continue
SkipNode ==
  /\ pc = "for"
  /\ item.elements[idx].type # "element"
  /\ Advance
  /\ UNCHANGED <<phase, req, outbox, stack, siblingCounts, collector,
                 processedElements, lastEmit, left, right, diffIn, diffOut,
                 appVars, editorVars>>

\* one iteration of the for loop on an element
VisitElement ==
  /\ pc = "for"
  /\ item.elements[idx].type = "element"
  /\ LET el == item.elements[idx]
         name == ElementName(el)
         currentIndex == NextIndex(siblingCounts, name)
         currentPath == Append(item.path, PathSegment(name, currentIndex))
         pathString == Join(currentPath, <<".">>)
         pushed == PushChildren(stack, el, currentPath)
         processed == processedElements + 1
     IN /\ processedElements' = processed
        /\ siblingCounts' = SetCount(siblingCounts, name, currentIndex)
        /\ collector' = CollectText(CollectAttributes(collector, pathString, el.attributes),
                                    pathString, el)
        /\ stack' = pushed
        /\ IF processed - lastEmit >= ScanEmitEvery
           THEN /\ lastEmit' = processed
                /\ outbox' = Append(outbox,
                     Progress(phase,
                              ScanPercent(BasePercent(phase), SpanPercent, processed, Len(pushed)),
                              "Scanning elements..."))
           ELSE /\ lastEmit' = lastEmit
                /\ outbox' = outbox
  /\ Advance
  /\ UNCHANGED <<phase, req, left, right, diffIn, diffOut,
                 appVars, editorVars>>

\* the work list is empty: postProgress(basePercent + spanPercent, 'Flatten
\* complete'); return { map: collector }
EndFlatten ==
  /\ pc = "loop"
  /\ stack = <<>>
  /\ outbox' = Append(outbox,
       Progress(phase, BasePercent(phase) + SpanPercent, "Flatten complete"))
  /\ Return([map |-> collector, error |-> Undefined])
  /\ ResetLocals
  /\ UNCHANGED <<req, diffIn, diffOut,
                 appVars, editorVars>>

\* a string is truthy unless it is undefined or empty
Truthy(e) == e # Undefined /\ e # ""

\* (mutant) left.error && right.error
AnyError_Both(l, r) == Truthy(l.error) /\ Truthy(r.error)

\* left.error || right.error
AnyError(l, r) == Truthy(l.error) \/ Truthy(r.error)

ErrorMessage(l, r) ==
  [ok |-> FALSE, type |-> "error", leftError |-> l.error, rightError |-> r.error]

DoneMessage(d) ==
  [ok |-> TRUE, type |-> "done", differences |-> d.differences, stats |-> d.stats]

\* (mutant) the error branch without its return statement
PostError_NoReturn ==
  /\ pc = "respond"
  /\ AnyError(left, right)
  /\ outbox' = outbox \o <<ErrorMessage(left, right),
                           Progress("diff", 92, "Diffing..."),
                           Progress("diff", 99, "Finalizing..."),
                           DoneMessage(diffMaps(left.map, right.map))>>
  /\ pc' = "return"
  /\ UNCHANGED <<phase, req, stack, item, idx, siblingCounts, collector,
                 processedElements, lastEmit, left, right, diffIn, diffOut,
                 appVars, editorVars>>

\* if (left.error || right.error) { self.postMessage(error); return; }
PostError ==
  /\ pc = "respond"
  /\ AnyError(left, right)
  /\ outbox' = Append(outbox, ErrorMessage(left, right))
  /\ pc' = "return"
  /\ UNCHANGED <<phase, req, stack, item, idx, siblingCounts, collector,
                 processedElements, lastEmit, left, right, diffIn, diffOut,
                 appVars, editorVars>>

\* postProgress('diff', 92); diffMaps; postProgress('diff', 99); post 'done'
DiffAndDone ==
  /\ pc = "respond"
  /\ ~AnyError(left, right)
  /\ outbox' = outbox \o <<Progress("diff", 92, "Diffing..."),
                           Progress("diff", 99, "Finalizing..."),
                           DoneMessage(diffMaps(left.map, right.map))>>
  /\ pc' = "return"
  /\ UNCHANGED <<phase, req, stack, item, idx, siblingCounts, collector,
                 processedElements, lastEmit, left, right, diffIn, diffOut,
                 appVars, editorVars>>

\* the handler has returned; nothing of the request is kept for the next one
HandlerReturns ==
  /\ pc = "return"
  /\ pc' = "idle"
  /\ phase' = "left"
  /\ req' = NoRequest
  /\ outbox' = <<>>
  /\ left' = NoResult
  /\ right' = NoResult
  /\ UNCHANGED <<stack, item, idx, siblingCounts, collector, processedElements,
                 lastEmit, diffIn, diffOut,
                 appVars, editorVars>>

Next ==
  \/ OnMessage
  \/ StartFlatten
  \/ FlattenThrows
  \/ PopItem
  \/ SkipNode
  \/ VisitElement
  \/ EndFlatten
  \/ PostError
  \/ DiffAndDone
  \/ HandlerReturns

Spec == Init /\ [][Next]_vars

----------------------------------------------------------------------------
(* diffMaps called on its own *)

\* keys of flat mappings
KeyPool ==
  { AttrKey(<<"a", "[", "1", "]">>, <<"x">>),
    TextKey(<<"a", "[", "1", "]", ".", "b", "[", "2", "]">>),
    TextKey(<<"a", "[", "1", "]", ".", EAcute, "[", "1", "]">>),
    TextKey(<<"a", "[", "1", "]", ".", "e", CombiningAcute, "[", "1", "]">>) }

ValuePool == {<<"1">>, <<"2">>}

\* the mappings of at most MaxKeys entries, in every insertion order
Mappings ==
  UNION {{m \in [1..n -> [key : KeyPool, value : ValuePool]] :
            \A i, j \in 1..n : i # j => m[i].key # m[j].key} : n \in 0..MaxKeys}

InitDiff ==
  /\ pc = "idle"
  /\ phase = "left"
  /\ req = NoRequest
  /\ outbox = <<>>
  /\ stack = <<>>
  /\ item = NoItem
  /\ idx = 0
  /\ siblingCounts = NoCounts
  /\ collector = EmptyMap
  /\ processedElements = 0
  /\ lastEmit = 0
  /\ left = NoResult
  /\ right = NoResult
  /\ diffIn \in [left : Mappings, right : Mappings]
  /\ diffOut = NotReturned
  /\ AppInit
  /\ EditorInit

\* const { differences, stats } = diffMaps(left, right)
CallDiffMaps ==
  /\ ~diffOut.returned
  /\ diffOut' = [returned |-> TRUE,
                 differences |-> diffMaps(diffIn.left, diffIn.right).differences,
                 stats |-> diffMaps(diffIn.left, diffIn.right).stats]
  /\ UNCHANGED <<diffIn, pc, phase, req, outbox, stack, item, idx, siblingCounts,
                 collector, processedElements, lastEmit, left, right,
                 appVars, editorVars>>

NextDiff == CallDiffMaps

SpecDiff == InitDiff /\ [][NextDiff]_vars

----------------------------------------------------------------------------
(* App: the comparison view and its worker listeners *)

UpperCase == <<"A", "B", "D", "X">>
LowerCase == <<"a", "b", "d", "x">>

\* String.prototype.toLowerCase
ToLowerCase(s) ==
  [i \in 1..Len(s) |->
     IF \E u \in 1..Len(UpperCase) : UpperCase[u] = s[i]
     THEN LowerCase[CHOOSE u \in 1..Len(UpperCase) : UpperCase[u] = s[i]]
     ELSE s[i]]

\* String.prototype.includes
Includes(s, q) ==
  \E i \in 0..(Len(s) - Len(q)) : SubSeq(s, i + 1, i + Len(q)) = q

\* the characters of a change kind
ChangeText(change) ==
  IF change = "added" THEN <<"a", "d", "d", "e", "d">>
  ELSE IF change = "removed" THEN <<"r", "e", "m", "o", "v", "e", "d">>
  ELSE <<"c", "h", "a", "n", "g", "e", "d">>

\* d.leftValue?.toLowerCase() ?? ''
LowerOrEmpty(d, field) == IF field \in DOMAIN d THEN ToLowerCase(d[field]) ELSE <<>>

\* the search test of one record
MatchesQuery(d, q) ==
  \/ Includes(ToLowerCase(d.path), q)
  \/ Includes(LowerOrEmpty(d, "leftValue"), q)
  \/ Includes(LowerOrEmpty(d, "rightValue"), q)
  \/ Includes(ChangeText(d.change), q)

\* the useMemo of filteredDiffs for given differences, filter and changeFilter
FilterDiffs(ds, f, cf) ==
  LET q == ToLowerCase(Trim(f))
      byKind == SelectSeq(ds, LAMBDA d : cf[d.change])
  IN IF q = <<>> THEN byKind
     ELSE SelectSeq(byKind, LAMBDA d : MatchesQuery(d, q))

filteredDiffs == FilterDiffs(appDifferences, filter, changeFilter)

\* the flat mappings behind the 'done' messages the App receives
SampleMaps ==
  {SelectSeq(<<[key |-> SampleKeys[1], value |-> <<"1">>, in |-> p[1]],
               [key |-> SampleKeys[2], value |-> <<"d">>, in |-> p[2]],
               [key |-> SampleKeys[3], value |-> p[3], in |-> TRUE]>>,
             LAMBDA e : e.in) :
     p \in BOOLEAN \X BOOLEAN \X {<<"1">>, <<"2">>}}

\* the texts typed or loaded into an input
AppTexts == {sampleLeft, sampleRight, BrokenText}

\* the terminal message of the worker for a request (self.onmessage)
WorkerReply(request) ==
  IF AnyError(request.leftXml, request.rightXml)
  THEN ErrorMessage(request.leftXml, request.rightXml)
  ELSE DoneMessage(diffMaps(request.leftXml.map, request.rightXml.map))

\* the messages the worker may send while a comparison runs
WorkerReplies ==
  {Progress("left", 0, "Parsing XML..."), Progress("diff", 99, "Finalizing...")}
  \cup {[ok |-> FALSE, type |-> "error", leftError |-> e[1], rightError |-> e[2]] :
          e \in {<<"Unclosed root tag", Undefined>>, <<Undefined, "Unclosed root tag">>,
                 <<"Unclosed root tag", "Unclosed root tag">>}}
  \cup {DoneMessage(diffMaps(l, r)) : l, r \in SampleMaps}

\* the search texts typed into the filter field
Queries == {<<>>, <<" ", "B">>, <<"d", "d">>}

ChangeKinds == {"added", "removed", "changed"}

\* handleCompare: the Compare button is disabled while isComparing
HandleCompare ==
  /\ ~isComparing
  /\ isComparing' = TRUE
  /\ leftError' = Undefined
  /\ rightError' = Undefined
  /\ progress' = [percent |-> 0, message |-> "Starting..."]
  /\ listeners' = listeners \cup {"message", "error"}
  /\ posted' = [leftXml |-> leftXml, rightXml |-> rightXml]
  /\ UNCHANGED <<appDifferences, appStats, filter, changeFilter, leftXml, rightXml>>
  /\ UNCHANGED <<workerVars, diffVars, editorVars>>

\* onMessage of a 'progress' message
AppOnProgress ==
  /\ "message" \in listeners
  /\ posted # NoPost
  /\ \E data \in {m \in WorkerReplies : m.ok /\ m.type = "progress"} :
       progress' = [percent |-> data.percent, message |-> data.message,
                    phase |-> data.phase]
  /\ UNCHANGED <<isComparing, leftError, rightError, appDifferences, appStats,
                 filter, changeFilter, leftXml, rightXml, listeners, posted>>
  /\ UNCHANGED <<workerVars, diffVars, editorVars>>

\* onMessage of an 'error' message
AppOnErrorMessage ==
  /\ "message" \in listeners
  /\ posted # NoPost
  /\ \E data \in {m \in WorkerReplies : ~m.ok /\ m.type = "error"} :
       /\ data = WorkerReply(posted)
       /\ leftError' = data.leftError
       /\ rightError' = data.rightError
  /\ appDifferences' = <<>>
  /\ appStats' = NoStats
  /\ isComparing' = FALSE
  /\ progress' = NoProgress
  /\ listeners' = listeners \ {"message", "error"}
  /\ posted' = NoPost
  /\ UNCHANGED <<filter, changeFilter, leftXml, rightXml>>
  /\ UNCHANGED <<workerVars, diffVars, editorVars>>

\* onMessage of a 'done' message
AppOnDone ==
  /\ "message" \in listeners
  /\ posted # NoPost
  /\ \E data \in {m \in WorkerReplies : m.ok /\ m.type = "done"} :
       /\ data = WorkerReply(posted)
       /\ appDifferences' = data.differences
       /\ appStats' = data.stats
  /\ isComparing' = FALSE
  /\ progress' = NoProgress
  /\ listeners' = listeners \ {"message", "error"}
  /\ posted' = NoPost
  /\ UNCHANGED <<leftError, rightError, filter, changeFilter, leftXml, rightXml>>
  /\ UNCHANGED <<workerVars, diffVars, editorVars>>

\* onError without the reset of the results and of the listeners
AppOnError_KeepsResults ==
  /\ "error" \in listeners
  /\ posted # NoPost
  /\ isComparing' = FALSE
  /\ leftError' = "Worker error: Script error."
  /\ progress' = NoProgress
  /\ posted' = NoPost
  /\ UNCHANGED <<rightError, appDifferences, appStats, filter, changeFilter,
                 leftXml, rightXml, listeners>>
  /\ UNCHANGED <<workerVars, diffVars, editorVars>>

\* onError: the worker's error event, after which the worker sends nothing
\* more for the request
AppOnError ==
  /\ "error" \in listeners
  /\ posted # NoPost
  /\ isComparing' = FALSE
  /\ leftError' = "Worker error: Script error."
  /\ appDifferences' = <<>>
  /\ appStats' = NoStats
  /\ progress' = NoProgress
  /\ listeners' = listeners \ {"message", "error"}
  /\ posted' = NoPost
  /\ UNCHANGED <<rightError, filter, changeFilter, leftXml, rightXml>>
  /\ UNCHANGED <<workerVars, diffVars, editorVars>>

\* onChange of an input (or a file loaded into it) and the effect on
\* [leftXml, rightXml]: an edited input clears the results
InputChanged ==
  /\ \E t \in AppTexts :
       \/ t # leftXml /\ leftXml' = t /\ rightXml' = rightXml
       \/ t # rightXml /\ rightXml' = t /\ leftXml' = leftXml
  /\ leftError' = Undefined
  /\ rightError' = Undefined
  /\ appDifferences' = <<>>
  /\ appStats' = NoStats
  /\ UNCHANGED <<isComparing, progress, filter, changeFilter, listeners, posted>>
  /\ UNCHANGED <<workerVars, diffVars, editorVars>>

\* onChange of the search field
SetFilter ==
  /\ \E q \in Queries : q # filter /\ filter' = q
  /\ UNCHANGED <<isComparing, leftError, rightError, progress, appDifferences,
                 appStats, changeFilter, leftXml, rightXml, listeners, posted>>
  /\ UNCHANGED <<workerVars, diffVars, editorVars>>

\* the 'Added only' button
SetAddedOnly ==
  /\ changeFilter' = [added |-> TRUE, removed |-> FALSE, changed |-> FALSE]
  /\ changeFilter' # changeFilter
  /\ UNCHANGED <<isComparing, leftError, rightError, progress, appDifferences,
                 appStats, filter, leftXml, rightXml, listeners, posted>>
  /\ UNCHANGED <<workerVars, diffVars, editorVars>>

\* a kind button: the kind is toggled unless that leaves no kind selected
ToggleKind ==
  /\ \E k \in ChangeKinds :
       LET next == [changeFilter EXCEPT ![k] = ~@]
       IN /\ next.added \/ next.removed \/ next.changed
          /\ changeFilter' = next
  /\ UNCHANGED <<isComparing, leftError, rightError, progress, appDifferences,
                 appStats, filter, leftXml, rightXml, listeners, posted>>
  /\ UNCHANGED <<workerVars, diffVars, editorVars>>

NextApp ==
  \/ HandleCompare
  \/ AppOnProgress
  \/ AppOnErrorMessage
  \/ AppOnDone
  \/ AppOnError
  \/ InputChanged
  \/ SetFilter
  \/ SetAddedOnly
  \/ ToggleKind

SpecApp == Init /\ [][NextApp]_vars

----------------------------------------------------------------------------
(* XmlEditor: the editable tree *)

\* the copy has the fields of the node, a copy of its attributes and the
\* copies of its children
RECURSIVE deepCloneNode(_)
deepCloneNode(node) ==
  [node EXCEPT !.attributes = [i \in 1..Len(node.attributes) |-> node.attributes[i]],
               !.children = [i \in 1..Len(node.children) |-> deepCloneNode(node.children[i])]]

CloneTree(nodes) == [i \in 1..Len(nodes) |-> deepCloneNode(nodes[i])]

\* the nodes of a forest in the order findNodeById visits them
RECURSIVE Preorder(_)
Preorder(nodes) ==
  IF nodes = <<>> THEN <<>>
  ELSE <<Head(nodes)>> \o Preorder(Head(nodes).children) \o Preorder(Tail(nodes))

\* findNodeById: <<>> for null, otherwise the first node with the id
findNodeById(nodes, id) ==
  LET matches == SelectSeq(Preorder(nodes), LAMBDA n : n.id = id)
  IN IF matches = <<>> THEN <<>> ELSE <<Head(matches)>>

NullList == [isNull |-> TRUE]

\* findParentNodes: null, or the ancestors of the first node with the id (an
\* empty array, which is truthy, for a node of the top level)
RECURSIVE findParentNodes(_, _, _)
findParentNodes(nodes, targetId, parentList) ==
  IF nodes = <<>> THEN NullList
  ELSE IF Head(nodes).id = targetId THEN [isNull |-> FALSE, list |-> parentList]
  ELSE LET found == findParentNodes(Head(nodes).children, targetId,
                                    Append(parentList, Head(nodes)))
       IN IF ~found.isNull THEN found
          ELSE findParentNodes(Tail(nodes), targetId, parentList)

\* (mutant) the children are renumbered under the path the node had before
ChildBase_Stale(node, currentPath) == node.path

\* the parentPath of the call that renumbers a node's children
ChildBase(node, currentPath) == currentPath

\* nodes.map of regenerateIds, siblingCounts being updated along the list
RECURSIVE regenerateIds(_, _, _)
regenerateIds(nodes, parentPath, counts) ==
  IF nodes = <<>> THEN <<>>
  ELSE LET node == Head(nodes)
           name == node.name
           count == NextCount(counts, name)
           currentPath == IndexedPath(parentPath, name, count)
       IN <<[node EXCEPT !.id = currentPath,
                         !.path = currentPath,
                         !.children = regenerateIds(node.children,
                                                    ChildBase(node, currentPath), NoCounts)]>>
          \o regenerateIds(Tail(nodes), parentPath, SetCount(counts, name, count))

----------------------------------------------------------------------------
(* XmlEditor: the name of a duplicated node *)

IsDigit(ch) == \E i \in 1..Len(Digits) : Digits[i] = ch

DigitValue(ch) == (CHOOSE i \in 1..Len(Digits) : Digits[i] = ch) - 1

\* parseInt of a string of digits
RECURSIVE ParseInt(_)
ParseInt(digits) ==
  IF digits = <<>> THEN 0
  ELSE 10 * ParseInt(SubSeq(digits, 1, Len(digits) - 1)) + DigitValue(digits[Len(digits)])

\* where /\[\d+\]$/ matches: the position of the bracket that opens a final
\* group of digits in brackets
IndexSuffixStart(name) ==
  {k \in 1..(Len(name) - 2) :
     /\ name[k] = "["
     /\ name[Len(name)] = "]"
     /\ \A j \in (k + 1)..(Len(name) - 1) : IsDigit(name[j])}

\* name.replace(/\[\d+\]$/, '')
StripIndexSuffix(name) ==
  IF IndexSuffixStart(name) = {} THEN name
  ELSE SubSeq(name, 1, (CHOOSE k \in IndexSuffixStart(name) : TRUE) - 1)

\* match ? parseInt(match[1]) : 0
IndexSuffixNumber(name) ==
  IF IndexSuffixStart(name) = {} THEN 0
  ELSE ParseInt(SubSeq(name, (CHOOSE k \in IndexSuffixStart(name) : TRUE) + 1,
                       Len(name) - 1))

\* String.prototype.startsWith
StartsWith(s, prefix) ==
  Len(prefix) <= Len(s) /\ SubSeq(s, 1, Len(prefix)) = prefix

\* Math.max(0, ...numbers) + 1 over the siblings whose name starts with baseName
NextNum(siblings, baseName) ==
  LET numbers == {IndexSuffixNumber(siblings[i].name) :
                    i \in {j \in 1..Len(siblings) : StartsWith(siblings[j].name, baseName)}}
  IN (CHOOSE m \in numbers \cup {0} : \A n \in numbers \cup {0} : n <= m) + 1

\* `${baseName}${nextNum}`
DuplicateName(sourceName, siblings) ==
  StripIndexSuffix(sourceName)
    \o NumberToString(NextNum(siblings, StripIndexSuffix(sourceName)))

\* the clone of the source node under its new name
Duplicated(sourceNode, siblings) ==
  [deepCloneNode(sourceNode) EXCEPT !.name = DuplicateName(sourceNode.name, siblings)]

\* update of duplicatePath: the clone is appended to the children of every
\* node with the parent's id, and those children are renumbered
RECURSIVE InsertDuplicate(_, _, _)
InsertDuplicate(nodes, parentId, sourceNode) ==
  [i \in 1..Len(nodes) |->
     IF nodes[i].id = parentId
     THEN [nodes[i] EXCEPT !.children =
             regenerateIds(Append(nodes[i].children,
                                  Duplicated(sourceNode, nodes[i].children)),
                           nodes[i].path, NoCounts)]
     ELSE [nodes[i] EXCEPT !.children = InsertDuplicate(nodes[i].children, parentId, sourceNode)]]

\* remove of deleteNode
RECURSIVE RemoveNode(_, _)
RemoveNode(nodes, id) ==
  LET kept == SelectSeq(nodes, LAMBDA n : n.id # id)
  IN [i \in 1..Len(kept) |-> [kept[i] EXCEPT !.children = RemoveNode(kept[i].children, id)]]

\* update of updateNodeValue
RECURSIVE SetValue(_, _, _)
SetValue(nodes, id, value) ==
  [i \in 1..Len(nodes) |->
     IF nodes[i].id = id THEN [nodes[i] EXCEPT !.value = value]
     ELSE [nodes[i] EXCEPT !.children = SetValue(nodes[i].children, id, value)]]

\* delete newAttrs[attrName]
DeleteKey(m, k) == SelectSeq(m, LAMBDA e : e.key # k)

\* update of updateNodeAttribute
RECURSIVE SetAttribute(_, _, _, _)
SetAttribute(nodes, id, attrName, attrValue) ==
  [i \in 1..Len(nodes) |->
     IF nodes[i].id = id
     THEN [nodes[i] EXCEPT !.attributes =
             IF Trim(attrValue) # <<>> THEN SetKey(@, attrName, attrValue)
             ELSE DeleteKey(@, attrName)]
     ELSE [nodes[i] EXCEPT !.children =
             SetAttribute(nodes[i].children, id, attrName, attrValue)]]

----------------------------------------------------------------------------
(* XmlEditor: the component                                                *)
(*                                                                         *)
(* The state of the view that no handler reads back into the tree or the   *)
(* history (expandedPaths, fileName, isLoading) is left out.               *)
(***************************************************************************)

\* most entries of the undo history the model lets the editor reach
MaxHistory == 2

\* the history keeps at most this many trees
HistoryLimit == 50

NameI1 == <<"i", "1">>
NameR == <<"r">>

\* <r><i1 x="1">v<c>7</c><c>8</c><c>9</c></i1><i1><c>6</c></i1></r>
ItemDoc ==
  Parsed(<<ElementNode(NameR, <<>>,
             <<ElementNode(NameI1, <<Attr(<<"x">>, <<"1">>)>>,
                 <<TextNode(<<"v">>),
                   ElementNode(NameC, <<>>, <<TextNode(<<"7">>)>>),
                   ElementNode(NameC, <<>>, <<TextNode(<<"8">>)>>),
                   ElementNode(NameC, <<>>, <<TextNode(<<"9">>)>>)>>),
               ElementNode(NameI1, <<>>,
                 <<ElementNode(NameC, <<>>, <<TextNode(<<"6">>)>>)>>)>>)>>)

\* the texts loaded into the editor
EditorContents == {BlankContent, ItemDoc, ParseFailure("Unclosed root tag")}

\* the values typed into a node's text field and into an attribute field
TypedValues == {<<"5">>}
TypedAttributes == {[key |-> <<"x">>, value |-> <<"5">>], [key |-> <<"x">>, value |-> <<" ">>]}

NodeIds(nodes) == {Preorder(nodes)[i].id : i \in 1..Len(Preorder(nodes))}

\* saveToHistory keeping the undone snapshots: no slice
saveToHistory_NoTruncate(newTree) ==
  LET newHistory == Append(historyRef, CloneTree(newTree))
      overflow == Len(newHistory) > HistoryLimit
      index == IF overflow THEN historyIndexRef ELSE Len(newHistory) - 1
  IN /\ historyRef' = (IF overflow THEN Tail(newHistory) ELSE newHistory)
     /\ historyIndexRef' = index
     /\ canUndo' = (index > 0)
     /\ canRedo' = FALSE

\* saveToHistory taking the index before the shift
saveToHistory_IndexBeforeShift(newTree) ==
  LET newHistory == Append(SubSeq(historyRef, 1, historyIndexRef + 1), CloneTree(newTree))
      overflow == Len(newHistory) > HistoryLimit
      index == Len(newHistory) - 1
  IN /\ historyRef' = (IF overflow THEN Tail(newHistory) ELSE newHistory)
     /\ historyIndexRef' = index
     /\ canUndo' = (index > 0)
     /\ canRedo' = FALSE

\* saveToHistory writing over the current snapshot: slice(0, index)
saveToHistory_Overwrite(newTree) ==
  LET newHistory == Append(SubSeq(historyRef, 1, historyIndexRef), CloneTree(newTree))
  IN /\ historyRef' = newHistory
     /\ historyIndexRef' = Len(newHistory) - 1
     /\ canUndo' = (Len(newHistory) - 1 > 0)
     /\ canRedo' = FALSE

\* saveToHistory without the test of the length
saveToHistory_NoLimit(newTree) ==
  LET newHistory == Append(SubSeq(historyRef, 1, historyIndexRef + 1), CloneTree(newTree))
  IN /\ historyRef' = newHistory
     /\ historyIndexRef' = Len(newHistory) - 1
     /\ canUndo' = (Len(newHistory) - 1 > 0)
     /\ canRedo' = FALSE

\* saveToHistory(newTree)
saveToHistory(newTree) ==
  LET newHistory == Append(SubSeq(historyRef, 1, historyIndexRef + 1), CloneTree(newTree))
      overflow == Len(newHistory) > HistoryLimit
      index == IF overflow THEN historyIndexRef ELSE Len(newHistory) - 1
  IN /\ historyRef' = (IF overflow THEN Tail(newHistory) ELSE newHistory)
     /\ historyIndexRef' = index
     /\ canUndo' = (index > 0)
     /\ canRedo' = FALSE

\* A long editing session: the item document is loaded and the numbers 10,
\* 11, 12, ... are typed one after the other into the text field of its root.
\* SessionTree(n) is the tree after n has been typed.
SessionTree(n) ==
  SetValue(buildEditableTree(ItemDoc.elements, <<>>), <<"r", "[", "1", "]">>,
           NumberToString(n))

\* the history once 10 .. 10 + HistoryLimit have been typed: the snapshot of
\* the load and the snapshot of 10 have been evicted, the last HistoryLimit
\* snapshots are held
LongHistory == [i \in 1..HistoryLimit |-> SessionTree(10 + i)]

SessionTrees == {LongHistory[i] : i \in 1..HistoryLimit}

\* the snapshots up to the current one that the long session did not make
OwnSnapshots ==
  {i \in 1..(historyIndexRef + 1) : historyRef[i] \notin SessionTrees}

\* the model stops the editor from adding more than MaxHistory snapshots of
\* its own to the history
RoomInHistory == Cardinality(OwnSnapshots) < MaxHistory

\* setXmlContent(content) and the effect on [xmlContent]
LoadContent ==
  \E content \in EditorContents :
    /\ content # xmlContent
    /\ xmlContent' = content
    /\ IF "blank" \in DOMAIN content
       THEN /\ tree' = <<>>
            /\ editorError' = Null
            /\ historyRef' = <<>>
            /\ historyIndexRef' = -1
            /\ canUndo' = FALSE
            /\ canRedo' = FALSE
       ELSE IF content.ok
       THEN LET rootElements == IF "elements" \in DOMAIN content THEN content.elements ELSE <<>>
                editableTree == buildEditableTree(rootElements, <<>>)
            IN /\ RoomInHistory
               /\ tree' = editableTree
               /\ editorError' = Null
               /\ saveToHistory(editableTree)
       ELSE /\ editorError' = content.message
            /\ tree' = <<>>
            /\ UNCHANGED <<historyRef, historyIndexRef, canUndo, canRedo>>
    /\ UNCHANGED <<thrown, workerVars, diffVars, appVars>>

\* updateNodeValue(id, value)
UpdateNodeValue ==
  /\ RoomInHistory
  /\ \E id \in NodeIds(tree), value \in TypedValues :
       LET newTree == SetValue(tree, id, value)
       IN /\ newTree # tree
          /\ tree' = newTree
          /\ saveToHistory(newTree)
  /\ UNCHANGED <<xmlContent, editorError, thrown>>
  /\ UNCHANGED <<workerVars, diffVars, appVars>>

\* updateNodeAttribute(id, attrName, attrValue)
UpdateNodeAttribute ==
  /\ RoomInHistory
  /\ \E id \in NodeIds(tree), attr \in TypedAttributes :
       LET newTree == SetAttribute(tree, id, attr.key, attr.value)
       IN /\ tree' = newTree
          /\ saveToHistory(newTree)
  /\ UNCHANGED <<xmlContent, editorError, thrown>>
  /\ UNCHANGED <<workerVars, diffVars, appVars>>

\* deleteNode(id)
DeleteNode ==
  /\ RoomInHistory
  /\ \E id \in NodeIds(tree) :
       LET newTree == RemoveNode(tree, id)
       IN /\ tree' = newTree
          /\ saveToHistory(newTree)
  /\ UNCHANGED <<xmlContent, editorError, thrown>>
  /\ UNCHANGED <<workerVars, diffVars, appVars>>

\* duplicatePath(id): a node of the top level has an empty parentList, whose
\* last element is undefined, and reading parent.id throws a TypeError before
\* any state is set; the branch of a null parentList renames and appends at top level
DuplicatePath ==
  /\ RoomInHistory
  /\ \E id \in NodeIds(tree) :
       LET sourceNode == Head(findNodeById(tree, id))
           parentList == findParentNodes(tree, id, <<>>)
       IN IF parentList.isNull
          THEN LET regenerated ==
                     regenerateIds(Append(tree, Duplicated(sourceNode, tree)), <<>>, NoCounts)
               IN /\ tree' = regenerated
                  /\ saveToHistory(regenerated)
                  /\ thrown' = thrown
          ELSE IF parentList.list = <<>>
          THEN /\ thrown' = "TypeError"
               /\ UNCHANGED <<tree, historyRef, historyIndexRef, canUndo, canRedo>>
          ELSE LET parent == parentList.list[Len(parentList.list)]
                   regenerated ==
                     regenerateIds(InsertDuplicate(tree, parent.id, sourceNode), <<>>, NoCounts)
               IN /\ tree' = regenerated
                  /\ saveToHistory(regenerated)
                  /\ thrown' = thrown
  /\ UNCHANGED <<xmlContent, editorError>>
  /\ UNCHANGED <<workerVars, diffVars, appVars>>

\* the model stops the editor from taking a history longer than MaxHistory
\* more than MaxHistory snapshots back from the limit
UndoInBound ==
  Len(historyRef) <= MaxHistory \/ historyIndexRef >= HistoryLimit - MaxHistory

\* undo: the button and the shortcut are enabled by canUndo
Undo ==
  /\ canUndo
  /\ UndoInBound
  /\ IF historyIndexRef > 0
     THEN /\ historyIndexRef' = historyIndexRef - 1
          /\ tree' = CloneTree(historyRef[historyIndexRef])
          /\ canUndo' = (historyIndexRef - 1 > 0)
          /\ canRedo' = TRUE
     ELSE UNCHANGED <<historyIndexRef, tree, canUndo, canRedo>>
  /\ UNCHANGED <<xmlContent, editorError, historyRef, thrown>>
  /\ UNCHANGED <<workerVars, diffVars, appVars>>

\* redo: the button and the shortcut are enabled by canRedo
Redo ==
  /\ canRedo
  /\ IF historyIndexRef < Len(historyRef) - 1
     THEN /\ historyIndexRef' = historyIndexRef + 1
          /\ tree' = CloneTree(historyRef[historyIndexRef + 2])
          /\ canUndo' = TRUE
          /\ canRedo' = (historyIndexRef + 1 < Len(historyRef) - 1)
     ELSE UNCHANGED <<historyIndexRef, tree, canUndo, canRedo>>
  /\ UNCHANGED <<xmlContent, editorError, historyRef, thrown>>
  /\ UNCHANGED <<workerVars, diffVars, appVars>>

NextEditor ==
  \/ LoadContent
  \/ UpdateNodeValue
  \/ UpdateNodeAttribute
  \/ DeleteNode
  \/ DuplicatePath
  \/ Undo
  \/ Redo

SpecEditor == Init /\ [][NextEditor]_vars

----------------------------------------------------------------------------
(* XmlEditor at the limit of its history                                   *)
(*                                                                         *)
(* The editor is taken up at the end of the long session, where the        *)
(* history is full, and is followed through the handlers that work on the  *)
(* history with one kind of edit.                                          *)
(***************************************************************************)

InitHistory ==
  /\ pc = "idle"
  /\ phase = "left"
  /\ req = NoRequest
  /\ outbox = <<>>
  /\ stack = <<>>
  /\ item = NoItem
  /\ idx = 0
  /\ siblingCounts = NoCounts
  /\ collector = EmptyMap
  /\ processedElements = 0
  /\ lastEmit = 0
  /\ left = NoResult
  /\ right = NoResult
  /\ diffIn = NoDiffCall
  /\ diffOut = NotReturned
  /\ AppInit
  /\ xmlContent = ItemDoc
  /\ tree = LongHistory[HistoryLimit]
  /\ editorError = Null
  /\ historyRef = LongHistory
  /\ historyIndexRef = HistoryLimit - 1
  /\ canUndo = TRUE
  /\ canRedo = FALSE
  /\ thrown = Null

NextHistory ==
  \/ LoadContent
  \/ UpdateNodeValue
  \/ Undo
  \/ Redo

SpecHistory == InitHistory /\ [][NextHistory]_vars

----------------------------------------------------------------------------
(* Properties of the message stream of one request *)

Last(seq) == seq[Len(seq)]
IsTerminal(m) == m.type = "done" \/ m.type = "error"
IsDiffProgress(m) == m.type = "progress" /\ m.phase = "diff"
LeftFailed == ~req.leftXml.ok
RightFailed == ~req.rightXml.ok

\* a step of a running mapXmlToFlat call
FlattenStep ==
  \/ StartFlatten
  \/ FlattenThrows
  \/ PopItem
  \/ SkipNode
  \/ VisitElement
  \/ EndFlatten

\* C1: the messages posted for a request are progress messages followed by
\* exactly one terminal message ('done' or 'error'): every message but the
\* last is a progress message, the last one is terminal exactly when the
\* handler has returned, and a handler that has not returned is either inside
\* a mapXmlToFlat call that can take a step or at the error test, which posts
\* the terminal message.
C1_ProgressThenOneTerminal ==
  /\ \A i \in 1..(Len(outbox) - 1) : outbox[i].type = "progress"
  /\ (pc = "return") <=> (outbox # <<>> /\ IsTerminal(Last(outbox)))
  /\ pc \in {"idle", "begin", "loop", "for", "respond", "return"}
  /\ pc \in {"begin", "loop", "for"} => ENABLED FlattenStep

C1_Witness ==
  /\ pc = "return"
  /\ Len(outbox) > 4
  /\ Last(outbox).type = "done"
  /\ outbox[1].type = "progress"

\* C2: when the left or the right document fails to parse, no progress
\* message of phase 'diff' and no 'done' message is posted, and the terminal
\* message is of type 'error'.
C2_FailureSkipsDiff ==
  (LeftFailed \/ RightFailed) =>
    /\ \A i \in 1..Len(outbox) : outbox[i].type # "done" /\ ~IsDiffProgress(outbox[i])
    /\ pc = "return" => Last(outbox).type = "error"

C2_Witness ==
  /\ pc = "return"
  /\ LeftFailed
  /\ ~RightFailed
  /\ Last(outbox).type = "error"

\* C3: a failure of the left document does not stop the flattening of the
\* right one (the right side's progress messages are posted, up to 'Flatten
\* complete' when the right document parses), and the 'error' message carries
\* leftError exactly when the left side failed and rightError exactly when the
\* right side failed, each being the parser's message.
C3_ErrorsPerSide ==
  pc = "return" =>
    /\ \E i \in 1..Len(outbox) :
         outbox[i] = Progress("right", 45, "Parsing XML...")
    /\ ~RightFailed => \E i \in 1..Len(outbox) :
         outbox[i] = Progress("right", 90, "Flatten complete")
    /\ Last(outbox).type = "error" =>
         /\ (Last(outbox).leftError # Undefined) <=> LeftFailed
         /\ (Last(outbox).rightError # Undefined) <=> RightFailed
         /\ LeftFailed => Last(outbox).leftError = req.leftXml.message
         /\ RightFailed => Last(outbox).rightError = req.rightXml.message

C3_Witness ==
  /\ pc = "return"
  /\ LeftFailed
  /\ ~RightFailed
  /\ Last(outbox).type = "error"
  /\ Last(outbox).rightError = Undefined
  /\ \E i \in 1..Len(outbox) : outbox[i] = Progress("right", 90, "Flatten complete")

----------------------------------------------------------------------------
(* Properties of mapXmlToFlat *)

\* the elements of a node list and of their subtrees, in document order, each
\* with its path: the parent's path followed by name[k], k being the number
\* of elements of that name among the preceding siblings and the element itself
RECURSIVE CanonicalElements(_, _)
CanonicalElements(nodes, parentPath) ==
  LET occurrence(i) ==
        Cardinality({j \in 1..i : nodes[j].type = "element"
                                   /\ ElementName(nodes[j]) = ElementName(nodes[i])})
      segment(i) ==
        ElementName(nodes[i]) \o <<"[">> \o NumberToString(occurrence(i)) \o <<"]">>
      pathOf(i) ==
        IF parentPath = <<>> THEN segment(i) ELSE parentPath \o <<".">> \o segment(i)
      RECURSIVE from(_)
      from(i) ==
        IF i > Len(nodes) THEN <<>>
        ELSE (IF nodes[i].type = "element"
              THEN <<[el |-> nodes[i], path |-> pathOf(i)]>>
                   \o CanonicalElements(nodes[i].elements, pathOf(i))
              ELSE <<>>)
             \o from(i + 1)
  IN from(1)

DocElements(doc) ==
  IF "elements" \in DOMAIN doc THEN CanonicalElements(doc.elements, <<>>) ELSE <<>>

\* the text of the direct text and cdata children of an element, in order
RECURSIVE DirectText(_)
DirectText(nodes) ==
  IF nodes = <<>> THEN <<>>
  ELSE (IF Head(nodes).type = "text" \/ Head(nodes).type = "cdata"
        THEN Head(nodes).text ELSE <<>>)
       \o DirectText(Tail(nodes))

\* a string without its leading and trailing white space
Stripped(t) ==
  LET solid == {i \in 1..Len(t) : t[i] \notin WhiteSpace}
  IN IF solid = {} THEN <<>>
     ELSE SubSeq(t, CHOOSE i \in solid : \A j \in solid : i <= j,
                    CHOOSE i \in solid : \A j \in solid : i >= j)

TrimmedText(el) == Stripped(DirectText(el.elements))

AttributeCount(doc) ==
  LET els == DocElements(doc)
  IN Cardinality(UNION {{<<i, j>> : j \in 1..Len(els[i].el.attributes)} : i \in 1..Len(els)})

TextElementCount(doc) ==
  LET els == DocElements(doc)
  IN Cardinality({i \in 1..Len(els) : TrimmedText(els[i].el) # <<>>})

\* the keys the path rule gives a document
CanonicalKeys(doc) ==
  LET els == DocElements(doc)
  IN UNION {{els[i].path \o <<"/", "@">> \o els[i].el.attributes[j].key :
               j \in 1..Len(els[i].el.attributes)} : i \in 1..Len(els)}
     \cup {els[i].path \o <<"/", "#", "t", "e", "x", "t">> :
             i \in {k \in 1..Len(els) : TrimmedText(els[k].el) # <<>>}}

\* both mapXmlToFlat calls of the request have returned
BothFlattened == pc = "respond"

\* the two calls: the parsed document and the mapping returned for it
Flattened ==
  {c \in {[doc |-> req.leftXml, res |-> left], [doc |-> req.rightXml, res |-> right]} :
     c.doc.ok}

IsTextKeySuffix(k) ==
  Len(k) >= 6 /\ SubSeq(k, Len(k) - 5, Len(k)) = <<"/", "#", "t", "e", "x", "t">>

ScenarioKey == <<"a", "[", "1", "]", ".", "b", "[", "2", "]", "/", "#", "t", "e", "x", "t">>

ScenarioDone ==
  [ok |-> TRUE, type |-> "done",
   differences |-> <<[path |-> ScenarioKey, leftValue |-> <<"2">>,
                      rightValue |-> <<"3">>, change |-> "changed"]>>,
   stats |-> [added |-> 0, removed |-> 0, changed |-> 1]]

ZeroDifferences(m) ==
  m.type = "done" /\ m.differences = <<>> /\ m.stats = [added |-> 0, removed |-> 0, changed |-> 0]

\* the keys of a mapping that belong to the element at a path
KeysOfElement(m, path) ==
  {k \in KeySet(m) : Len(k) > Len(path) /\ SubSeq(k, 1, Len(path) + 1) = path \o <<"/">>}

\* C7 as stated: two documents that differ only by one more empty leaf element
\* without attributes in the right document compare with zero difference
\* records and all-zero stats.
C7_AnyEmptyLeafIsInvisible ==
  (pc = "return" /\ req.rightXml \in WithEmptyLeaf(req.leftXml, TRUE))
    => ZeroDifferences(Last(outbox))

\* C7, amended: an element with no attributes and no non-blank direct text
\* contributes no key, and two documents that differ only by one more empty
\* leaf element without attributes in the right document, added where no
\* following sibling has the same name, compare with zero difference records
\* and all-zero stats.
C7_TrailingEmptyLeafIsInvisible ==
  /\ BothFlattened =>
       \A c \in Flattened :
         \A i \in 1..Len(DocElements(c.doc)) :
           LET e == DocElements(c.doc)[i]
           IN (e.el.attributes = <<>> /\ TrimmedText(e.el) = <<>>)
                => KeysOfElement(c.res.map, e.path) = {}
  /\ (pc = "return" /\ req.rightXml \in WithEmptyLeaf(req.leftXml, FALSE))
       => ZeroDifferences(Last(outbox))

C7_Witness ==
  /\ pc = "return"
  /\ req.rightXml \in WithEmptyLeaf(req.leftXml, FALSE)
  /\ Len(left.map) > 2
  /\ Len(right.map) = Len(left.map)
  /\ ZeroDifferences(Last(outbox))


----------------------------------------------------------------------------
(* Properties of diffMaps *)

EntriesOf(m, k) == {i \in 1..Len(m) : m[i].key = k}
Present(m, k) == EntriesOf(m, k) # {}
ValueAt(m, k) == m[CHOOSE i \in EntriesOf(m, k) : TRUE].value
RecordsAt(ds, k) == {i \in 1..Len(ds) : ds[i].path = k}

\* C8: for every key of the union of the two mappings diffMaps returns one
\* 'removed' record with the left value when the key is absent from right,
\* otherwise one 'added' record with the right value when it is absent from
\* left, otherwise one 'changed' record with both values when the values
\* differ, otherwise no record; a key outside the union has no record.
C8_Classification ==
  diffOut.returned =>
    LET l == diffIn.left
        r == diffIn.right
        ds == diffOut.differences
    IN /\ \A i \in 1..Len(ds) : Present(l, ds[i].path) \/ Present(r, ds[i].path)
       /\ \A k \in KeyPool :
            IF ~Present(l, k) /\ ~Present(r, k) THEN RecordsAt(ds, k) = {}
            ELSE IF ~Present(r, k)
            THEN /\ Cardinality(RecordsAt(ds, k)) = 1
                 /\ \A i \in RecordsAt(ds, k) :
                      ds[i] = [path |-> k, leftValue |-> ValueAt(l, k), change |-> "removed"]
            ELSE IF ~Present(l, k)
            THEN /\ Cardinality(RecordsAt(ds, k)) = 1
                 /\ \A i \in RecordsAt(ds, k) :
                      ds[i] = [path |-> k, rightValue |-> ValueAt(r, k), change |-> "added"]
            ELSE IF ValueAt(l, k) # ValueAt(r, k)
            THEN /\ Cardinality(RecordsAt(ds, k)) = 1
                 /\ \A i \in RecordsAt(ds, k) :
                      ds[i] = [path |-> k, leftValue |-> ValueAt(l, k),
                               rightValue |-> ValueAt(r, k), change |-> "changed"]
            ELSE RecordsAt(ds, k) = {}

C8_Witness ==
  /\ diffOut.returned
  /\ {diffOut.differences[i].change : i \in 1..Len(diffOut.differences)}
       = {"added", "removed", "changed"}

\* C9: no two records of the returned differences have the same path, and a
\* key that both mappings hold with equal values has no record.
C9_OneRecordPerKey ==
  diffOut.returned =>
    LET ds == diffOut.differences
    IN /\ \A i, j \in 1..Len(ds) : i # j => ds[i].path # ds[j].path
       /\ \A k \in KeyPool :
            (Present(diffIn.left, k) /\ Present(diffIn.right, k)
               /\ ValueAt(diffIn.left, k) = ValueAt(diffIn.right, k))
              => RecordsAt(ds, k) = {}

C9_Witness ==
  /\ diffOut.returned
  /\ Len(diffOut.differences) = 1
  /\ diffOut.differences[1].change = "changed"
  /\ \E k \in KeyPool :
       /\ Present(diffIn.left, k) /\ Present(diffIn.right, k)
       /\ ValueAt(diffIn.left, k) = ValueAt(diffIn.right, k)

\* C10: the differences of a 'done' message are sorted by path without ties:
\* each record's path is strictly before the next one's under the comparison
\* the sort uses.
C10_StrictlySortedByPath ==
  (pc = "return" /\ Last(outbox).type = "done") =>
    \A i \in 1..(Len(Last(outbox).differences) - 1) :
      localeCompare(Last(outbox).differences[i].path,
                    Last(outbox).differences[i + 1].path) < 0

----------------------------------------------------------------------------
(* Properties of the stats and of the shown list *)

CountKind(ds, kind) == Cardinality({i \in 1..Len(ds) : ds[i].change = kind})

StatsCount(ds, st) ==
  /\ st.added = CountKind(ds, "added")
  /\ st.removed = CountKind(ds, "removed")
  /\ st.changed = CountKind(ds, "changed")
  /\ st.added + st.removed + st.changed = Len(ds)

\* a step that changes the search text or the kind filter
FilterStep == filter' # filter \/ changeFilter' # changeFilter

\* C11: the stats the App holds are the numbers of 'added', 'removed' and
\* 'changed' records of the differences it holds (their sum is the length of
\* the list), whatever the search text and the kind filter are; the shown list
\* only selects records of that list; and a step that changes the search text
\* or the kind filter changes neither the stats nor the differences.
C11_StatsExactUnderFilters ==
  /\ [](/\ StatsCount(appDifferences, appStats)
        /\ Len(filteredDiffs) <= Len(appDifferences)
        /\ \A i \in 1..Len(filteredDiffs) :
             \E j \in 1..Len(appDifferences) : filteredDiffs[i] = appDifferences[j])
  /\ [][FilterStep => (appStats' = appStats /\ appDifferences' = appDifferences)]_vars

C11_Witness ==
  /\ appStats = [added |-> 1, removed |-> 1, changed |-> 1]
  /\ ~changeFilter.removed
  /\ filter = <<"d", "d">>
  /\ Len(appDifferences) = 3
  /\ Len(filteredDiffs) = 1

----------------------------------------------------------------------------
(* Algebraic properties of diffMaps *)

\* a record read from the other side: 'added' and 'removed' exchanged, the
\* left and the right value exchanged
MirrorRecord(d) ==
  IF d.change = "removed"
  THEN [path |-> d.path, rightValue |-> d.leftValue, change |-> "added"]
  ELSE IF d.change = "added"
  THEN [path |-> d.path, leftValue |-> d.rightValue, change |-> "removed"]
  ELSE [path |-> d.path, leftValue |-> d.rightValue, rightValue |-> d.leftValue,
        change |-> "changed"]

MirrorResult(res) ==
  [differences |-> [i \in 1..Len(res.differences) |-> MirrorRecord(res.differences[i])],
   stats |-> [added |-> res.stats.removed, removed |-> res.stats.added,
              changed |-> res.stats.changed]]

\* C12: diffMaps(A, B) with 'added' and 'removed' exchanged and the values of
\* every record swapped is diffMaps(B, A): the same records in the same order
\* and the stats with added and removed exchanged.
C12_MirrorIsReverseDiff ==
  diffOut.returned =>
    MirrorResult([differences |-> diffOut.differences, stats |-> diffOut.stats])
      = diffMaps(diffIn.right, diffIn.left)

\* the two mappings have the same entries, in whatever insertion order
SameEntries(l, r) == {l[i] : i \in 1..Len(l)} = {r[i] : i \in 1..Len(r)}

\* C13: diffMaps(M, M) returns an empty differences list and all-zero stats,
\* for every mapping M (and for two mappings that hold the same entries).
C13_DiffOfEqualMapsIsEmpty ==
  (diffOut.returned /\ SameEntries(diffIn.left, diffIn.right)) =>
    /\ diffOut.differences = <<>>
    /\ diffOut.stats = [added |-> 0, removed |-> 0, changed |-> 0]

C13_Witness ==
  /\ diffOut.returned
  /\ diffIn.left = diffIn.right
  /\ Len(diffIn.left) = 2
  /\ localeCompare(diffIn.left[1].key, diffIn.left[2].key) = 0
  /\ diffOut.differences = <<>>

----------------------------------------------------------------------------
(* Properties of the reported progress *)

ProgressAt == {i \in 1..Len(outbox) : outbox[i].type = "progress"}

\* C14: the percent values of the progress messages of a request never
\* decrease in posting order.
C14_PercentNeverDecreases ==
  \A i, j \in ProgressAt : i < j => outbox[i].percent <= outbox[j].percent

\* C15: when the request ends with a 'done' message, a progress message with
\* percent 100 was posted before it.
C15_HundredBeforeDone ==
  (pc = "return" /\ Last(outbox).type = "done") =>
    \E i \in ProgressAt : outbox[i].percent = 100

PhaseRank(ph) == IF ph = "left" THEN 1 ELSE IF ph = "right" THEN 2 ELSE 3
PhaseLow(ph) == IF ph = "left" THEN 0 ELSE IF ph = "right" THEN 45 ELSE 90
PhaseHigh(ph) == IF ph = "left" THEN 45 ELSE IF ph = "right" THEN 90 ELSE 100

\* C16: a progress message of phase 'left' has its percent in 0..45, of phase
\* 'right' in 45..90 and of phase 'diff' in 90..100, and the 'left' messages
\* of a request are posted before its 'right' messages, which are posted
\* before its 'diff' messages.
C16_PhaseSpansInOrder ==
  /\ \A i \in ProgressAt :
       /\ outbox[i].phase \in {"left", "right", "diff"}
       /\ outbox[i].percent >= PhaseLow(outbox[i].phase)
       /\ outbox[i].percent <= PhaseHigh(outbox[i].phase)
  /\ \A i, j \in ProgressAt :
       i < j => PhaseRank(outbox[i].phase) <= PhaseRank(outbox[j].phase)

C16_Witness ==
  /\ pc = "return"
  /\ Last(outbox).type = "done"
  /\ \E i \in ProgressAt :
       outbox[i].phase = "left" /\ outbox[i].message = "Scanning elements..."
  /\ \E i \in ProgressAt : outbox[i].phase = "right" /\ outbox[i].percent = 90
  /\ \E i \in ProgressAt : outbox[i].phase = "diff" /\ outbox[i].percent = 92

----------------------------------------------------------------------------
(* Properties of the editor's identifiers *)

Reindexed(nodes) == regenerateIds(nodes, <<>>, NoCounts)

\* the trees the editor holds: the shown tree and the trees of the history
HeldTrees == {tree} \cup {historyRef[i] : i \in 1..Len(historyRef)}

\* C17: regenerateIds applied to the result of regenerateIds returns that
\* result unchanged, for every tree the editor holds (with current or with
\* outdated ids): a tree whose ids are those of its sibling lists keeps its
\* ids and paths when regenerateIds is run again from the root.
C17_ReindexIsIdempotent ==
  \A t \in HeldTrees : Reindexed(Reindexed(t)) = Reindexed(t)

C17_Witness ==
  /\ Len(Preorder(tree)) >= 3
  /\ Reindexed(tree) # tree
  /\ \E i \in 1..Len(Preorder(tree)) :
       /\ Preorder(tree)[i].children # <<>>
       /\ Preorder(tree)[i].id # Preorder(Reindexed(tree))[i].id
  /\ Reindexed(Reindexed(tree)) = Reindexed(tree)

\* C18: after every editor operation the id and the path of every node of
\* the shown tree are those its position gives it (the parent's path followed
\* by name[k], k counting the node's name among its current siblings): the
\* tree equals regenerateIds applied to it.
C18_IdsAlwaysCanonical == Reindexed(tree) = tree

\* the tree built from the loaded document
LoadedTree == buildEditableTree(ItemDoc.elements, <<>>)

\* the children of the first i1 element of a tree of the document's shape
ItemKids(t) ==
  IF t # <<>> /\ t[1].children # <<>> THEN t[1].children[1].children ELSE <<>>

\* the shown tree is the loaded tree with a copy of the second <c> of the
\* first <i1> added to that element
SecondOfThreeDuplicated ==
  /\ Len(tree) = 1
  /\ Len(tree[1].children) = 2
  /\ Len(ItemKids(tree)) = 4
  /\ [i \in 1..4 |-> ItemKids(tree)[i].value] = <<<<"7">>, <<"8">>, <<"9">>, <<"8">>>>

ItemPath == <<"r", "[", "1", "]", ".", "i", "1", "[", "1", "]">>

\* C19: once the second of the three <c> siblings has been duplicated, the
\* four same-named siblings carry the ids c[1], c[2], c[3], c[4] under their
\* parent's path.
C19_DuplicateRenumbersSiblings ==
  SecondOfThreeDuplicated =>
    \A i \in 1..4 :
      /\ ItemKids(tree)[i].name = NameC
      /\ ItemKids(tree)[i].id = IndexedPath(ItemPath, NameC, i)
      /\ ItemKids(tree)[i].path = IndexedPath(ItemPath, NameC, i)

\* a subtree without its ids and paths
RECURSIVE Shape(_)
Shape(node) ==
  [name |-> node.name, value |-> node.value, attributes |-> node.attributes,
   children |-> [i \in 1..Len(node.children) |-> Shape(node.children[i])]]

\* the shown tree is the loaded tree with one more child of the root, the
\* children the root had being in place
FirstItemDuplicated ==
  /\ Len(tree) = 1
  /\ Len(tree[1].children) = 3
  /\ SubSeq(tree[1].children, 1, 2) = LoadedTree[1].children
  /\ tree[1].children[3].value = <<"v">>

\* C20: duplicating the node named i1 adds to its parent a node named i2 with
\* the value, the attributes and the whole subtree of i1, the source node and
\* its other siblings staying in place.
C20_DuplicateIsNextNumberedClone ==
  FirstItemDuplicated =>
    /\ tree[1].children[3].name = <<"i", "2">>
    /\ Shape([tree[1].children[3] EXCEPT !.name = NameI1]) = Shape(tree[1].children[1])

----------------------------------------------------------------------------
(* Properties of the editor's history *)

\* a step in which saveToHistory has stored a snapshot
SavesSnapshot == historyRef' # historyRef /\ historyRef' # <<>>

\* the history is full and nothing of it is undone
FullAtEnd == Len(historyRef) = HistoryLimit /\ historyIndexRef = HistoryLimit - 1

KeptSnapshots == SubSeq(historyRef, 1, historyIndexRef + 1)

----------------------------------------------------------------------------
(* The editor's tree against the worker's mapping *)

\* the request compares a parsed document with what the editor rebuilds of it
RoundTripRequest == req.leftXml.ok /\ req.rightXml = Rebuilt(req.leftXml)

\* C23: the element structure that buildXmlFromEditable makes of the tree
\* that buildEditableTree builds of a parsed document flattens to the mapping
\* of the document: the same keys with the same values (and in the same
\* order), and no error.
C23_RebuiltDocumentFlattensAlike ==
  (BothFlattened /\ RoundTripRequest) => right = left

C23_Witness ==
  /\ BothFlattened
  /\ RoundTripRequest
  /\ req.rightXml # req.leftXml
  /\ "elements" \in DOMAIN req.leftXml
  /\ Len(req.leftXml.elements) = 1
  /\ Len(req.leftXml.elements[1].elements) = 2
  /\ req.leftXml.elements[1].elements[2] = TextNode(<<"1">>)
  /\ Len(left.map) = 6
  /\ right.map = left.map

----------------------------------------------------------------------------
(* The comparison view and the worker's failures *)

WorkerErrorText == "Worker error: Script error."

\* C24: while a comparison runs the App listens to the worker's messages and
\* to its error event; the error event sets leftError to the 'Worker error:'
\* text, and whenever that text is shown the differences and the stats are
\* empty, no comparison runs, the progress is cleared and both listeners of
\* the request are detached.
C24_WorkerFailureEndsTheRequest ==
  /\ [](isComparing => listeners = {"message", "error"})
  /\ [][AppOnError => leftError' = WorkerErrorText]_vars
  /\ [](leftError = WorkerErrorText
          => /\ appDifferences = <<>>
             /\ appStats = NoStats
             /\ ~isComparing
             /\ progress = NoProgress
             /\ listeners = {})

\* the worker has failed on two texts that parse
C24_Witness ==
  /\ leftError = WorkerErrorText
  /\ rightError = Undefined
  /\ leftXml = sampleLeft
  /\ rightXml = sampleRight
  /\ ~isComparing
  /\ listeners = {}
  /\ posted = NoPost

----------------------------------------------------------------------------
(* Termination of the work-list loop of mapXmlToFlat *)

RECURSIVE Sum(_)
Sum(ns) == IF ns = <<>> THEN 0 ELSE Head(ns) + Sum(Tail(ns))

\* the steps the loop takes for a list of nodes once it iterates over it: one
\* iteration for every node, and for an element with element children the
\* pop of the item pushed for them and the steps for that list
RECURSIVE StepsOfList(_)
StepsOfList(nodes) ==
  Sum([i \in 1..Len(nodes) |->
         IF nodes[i].type = "element" /\ ElementChildren(nodes[i]) # <<>>
         THEN 2 + StepsOfList(ElementChildren(nodes[i]))
         ELSE 1])

\* the steps the loop still has to take: the pop of every item of the work
\* list with the steps for its list, and the rest of the list being iterated
StepsLeft(stk, at, it, ix) ==
  Sum([i \in 1..Len(stk) |->
         1 + (IF "elements" \in DOMAIN stk[i] THEN StepsOfList(stk[i].elements) ELSE 0)])
  + (IF at = "for" THEN StepsOfList(SubSeq(it.elements, ix, Len(it.elements))) ELSE 0)

RemainingSteps == StepsLeft(stack, pc, item, idx)

LoopStep == PopItem \/ SkipNode \/ VisitElement

\* the handler runs to completion: inside a mapXmlToFlat call the next step
\* of the call is always taken
SpecLive == Init /\ [][Next]_vars /\ WF_vars(FlattenStep)

\* the entries a recursive depth-first flattening with the path rule gives
RecursiveEntries(doc) ==
  LET els == DocElements(doc)
  IN UNION {{[key |-> els[i].path \o <<"/", "@">> \o els[i].el.attributes[j].key,
              value |-> els[i].el.attributes[j].value] :
               j \in 1..Len(els[i].el.attributes)} : i \in 1..Len(els)}
     \cup {[key |-> els[i].path \o <<"/", "#", "t", "e", "x", "t">>,
            value |-> TrimmedText(els[i].el)] :
             i \in {k \in 1..Len(els) : TrimmedText(els[k].el) # <<>>}}

\* C25: the work-list loop terminates: a handler inside a mapXmlToFlat call
\* reaches the point where both calls have returned, every step of the loop
\* takes one off the finite number of steps left, and a step is possible
\* until the call returns; the loop ends with the work list empty and processedElements equal
\* to the number of elements of the document, and the mapping returned has
\* the entries of the recursive depth-first flattening, one per key.
C25_WorkListLoopTerminates ==
  /\ (pc \in {"begin", "loop", "for"}) ~> (pc = "respond")
  /\ [][LoopStep => StepsLeft(stack', pc', item', idx') = RemainingSteps - 1]_vars
  /\ [](RemainingSteps >= 0)
  /\ [](pc \in {"loop", "for"} => ENABLED FlattenStep)
  /\ []((pc = "loop" /\ RemainingSteps = 0)
          => /\ stack = <<>>
             /\ processedElements = Len(DocElements(Xml(phase))))
  /\ [](BothFlattened =>
          \A c \in Flattened :
            /\ {c.res.map[i] : i \in 1..Len(c.res.map)} = RecursiveEntries(c.doc)
            /\ Len(c.res.map) = Cardinality(RecursiveEntries(c.doc)))

C25_Witness ==
  /\ pc = "loop"
  /\ stack = <<>>
  /\ Xml(phase) = UnevenDoc
  /\ processedElements > 3 * ScanEmitEvery

----------------------------------------------------------------------------
(* Identity of the nodes of the editor's tree *)

\* no two nodes of the forest have the same id
DistinctIds(nodes) == Cardinality(NodeIds(nodes)) = Len(Preorder(nodes))

C27_RootDuplicateTakesRootBranch ==
  /\ \A i \in 1..Len(tree) : findParentNodes(tree, tree[i].id, <<>>).isNull
  /\ thrown = Null

----------------------------------------------------------------------------
(* The history index and the undo and redo flags *)

\* C28: a save leaves no snapshot after the one it stores: the history is as
\* long as the snapshots up to the current index and the new one (at most
\* the limit), the index is the position of the new snapshot, which is the
\* last, canRedo is false, and redo is not enabled as long as the index is at
\* the last snapshot.
C28_SaveDropsTheRedoBranch ==
  /\ [][SavesSnapshot
         => /\ Len(historyRef') = Min(historyIndexRef + 2, HistoryLimit)
            /\ historyIndexRef' = Len(historyRef') - 1
            /\ historyRef'[Len(historyRef')] = tree'
            /\ ~canRedo']_vars
  /\ [](historyIndexRef = Len(historyRef) - 1 => ~ENABLED Redo)

\* two snapshots of the full history were undone and an edit was saved
C28_Witness ==
  /\ Len(historyRef) = HistoryLimit - 1
  /\ historyIndexRef = HistoryLimit - 2
  /\ ~canRedo
  /\ historyRef[HistoryLimit - 2] = LongHistory[HistoryLimit - 2]
  /\ historyRef[HistoryLimit - 1] = tree
  /\ tree \notin SessionTrees

\* C29: the index is -1 when the history is empty and a position of the
\* history otherwise, canUndo says that the index is greater than 0 and
\* canRedo that it is less than the last position.
C29_IndexAndFlagsAgree ==
  /\ IF historyRef = <<>> THEN historyIndexRef = -1
     ELSE historyIndexRef \in 0..(Len(historyRef) - 1)
  /\ canUndo <=> historyIndexRef > 0
  /\ canRedo <=> historyIndexRef < Len(historyRef) - 1

\* a document has failed to parse after a snapshot was evicted on overflow
C29_Witness ==
  /\ editorError = "Unclosed root tag"
  /\ tree = <<>>
  /\ Len(historyRef) = HistoryLimit
  /\ historyRef[1] = LongHistory[2]
  /\ historyIndexRef = HistoryLimit - 1
  /\ canUndo
  /\ ~canRedo

----------------------------------------------------------------------------
(* The results of the comparison view against its inputs *)

\* the message the worker sends for the texts that are in the inputs now
CurrentReply == WorkerReply([leftXml |-> leftXml, rightXml |-> rightXml])

\* C30 as stated: when no comparison runs and the differences or the stats
\* are not empty, they are those of the comparison of the texts that are in
\* the two inputs.
C30_ResultsBelongToCurrentInputs ==
  (~isComparing /\ (appDifferences # <<>> \/ appStats # NoStats))
    => /\ CurrentReply.type = "done"
       /\ appDifferences = CurrentReply.differences
       /\ appStats = CurrentReply.stats

====
